---- MODULE Spec2Model ----
(***************************************************************************)
(* And64InlineHook: the AArch64 inline-hook installer, its trampoline pool *)
(* and its instruction relocator, as a state machine.                      *)
(*                                                                         *)
(* Representation.  TLC integers are 32-bit signed, so                     *)
(*   - a 32-bit machine word is the pair <<h, l>> of its bits 31..24 (h)   *)
(*     and its bits 23..0 (l);                                             *)
(*   - a code address (a uint32_t pointer, always 4-byte aligned) is       *)
(*     the number of the word it points to: byte address = 4 * index.  The *)
(*     byte difference of two such pointers shifted right by 2 is the      *)
(*     difference of the indices.  A 64-bit byte quantity that need not be *)
(*     word aligned (the ADR target) is a pair <<word index, byte 0..3>>.  *)
(***************************************************************************)
EXTENDS Integers, Sequences, FiniteSets, TLC

----------------------------------------------------------------------------
(* 32-bit words                                                            *)

P2(n) == 2 ^ n

RECURSIVE BitAnd(_, _)
BitAnd(a, b) ==
    IF a = 0 \/ b = 0 THEN 0
    ELSE (a % 2) * (b % 2) + 2 * BitAnd(a \div 2, b \div 2)

RECURSIVE BitOr(_, _)
BitOr(a, b) ==
    IF a = 0 THEN b
    ELSE IF b = 0 THEN a
    ELSE (IF a % 2 = 1 \/ b % 2 = 1 THEN 1 ELSE 0) + 2 * BitOr(a \div 2, b \div 2)

W(h, l) == <<h, l>>
And32(a, b) == <<BitAnd(a[1], b[1]), BitAnd(a[2], b[2])>>
Or32(a, b) == <<BitOr(a[1], b[1]), BitOr(a[2], b[2])>>
Not32(a) == <<255 - a[1], (P2(24) - 1) - a[2]>>

\* The word holding the low 32 bits of a (possibly negative) integer v.
ToWord(v) == <<(v \div P2(24)) % 256, v % P2(24)>>

\* ins & 0x03ffffff and friends, as a number: the low w bits of a word, w > 24.
LowBits(ins, w) == (ins[1] % P2(w - 24)) * P2(24) + ins[2]

\* Two's-complement reading of a w-bit field.
SignExtend(v, w) == IF v >= P2(w - 1) THEN v - P2(w) ELSE v

Abs(x) == IF x < 0 THEN -x ELSE x

A64_MAX_INSTRUCTIONS == 5
A64_MAX_REFERENCES == A64_MAX_INSTRUCTIONS * 2
A64_MAX_BACKUPS == 256
A64_NOP == W(\hd5, \h03201f)
LDR_X17_8 == W(\h58, \h000051)
LDR_X17_12 == W(\h58, \h000071)
ADR_X30_16 == W(\h10, \h00009e)
BR_X17 == W(\hd6, \h1f0220)
NULL == 0

\* a cell nobody has written yet, and the cell of a null result pointer
Unset == 0 - 1
NoCell == 0 - 2

\* The two words a 64-bit store (memcpy of an int64_t, little endian) of the
\* byte value 4 * w + b leaves in memory: low word first.
Lit64(w, b) ==
    << <<(w \div P2(22)) % 256, 4 * (w % P2(22)) + b>>,
       ToWord(w \div P2(30)) >>

\* The <<word index, byte>> a pair of memory words holds as a 64-bit value
\* (values below 2^33 only: the high word is 0 or 1).
Val64(lo, hi) ==
    << hi[2] * P2(30) + lo[1] * P2(22) + lo[2] \div 4, lo[2] % 4 >>

----------------------------------------------------------------------------
(* State                                                                   *)

VARIABLES
    mem,        \* memory: word index -> word, for every word that matters
    pc,         \* position of the (single) hooking thread
    api,        \* "hook" (A64HookFunction) or "hook_v" (A64HookFunctionV)
    symbol,     \* argument: the function to hook
    replace,    \* argument: the replacement function
    result,     \* A64HookFunction: the cell *result (NoCell when result = NULL)
    rwx_size,   \* argument rwx_size of A64HookFunctionV
    trampoline, \* A64HookFunctionV: local trampoline (NULL = 0)
    original,   \* A64HookFunctionV: local original
    count,      \* A64HookFunctionV: instructions to displace
    fcount,     \* __fix_instructions: its parameter count, counted down
    inp,        \* __fix_instructions: input cursor
    outp,       \* __fix_instructions: output cursor
    outp_base,  \* __fix_instructions: first output word
    basep,      \* context::basep
    endp,       \* context::endp
    dat_ins,    \* context::dat[i].ins
    dat_fmap,   \* context::dat[i].fmap, the entries with bp != NULL in order
    dat_end,    \* history: the output cursor after input i was rewritten
    text0,      \* history: memory as it was before the call
    index,      \* FastAllocateTrampoline::__index
    ret,        \* value returned by A64HookFunctionV (Unset before it returns)
    log,        \* what the call has done to its surroundings, in order
    tpc,        \* concurrent allocation: position of each thread
    ti,         \* concurrent allocation: each thread's local i
    tgot,       \* concurrent allocation: what each call returned, in order
    ncalls      \* concurrent allocation: calls started so far

vars == <<mem, pc, api, symbol, replace, result, rwx_size, trampoline, original,
          count, fcount, inp, outp, outp_base, basep, endp, dat_ins, dat_fmap,
          dat_end, text0, index,
          ret, log, tpc, ti, tgot, ncalls>>

relocVars == <<mem, inp, outp, fcount, dat_ins, dat_fmap, dat_end, log>>
relocVarsNoLogMem == <<inp, outp, fcount, dat_ins, dat_fmap, dat_end>>
callVars == <<api, symbol, replace, rwx_size, text0>>
allocVars == <<tpc, ti, tgot, ncalls>>

----------------------------------------------------------------------------
(* Memory                                                                  *)

\* Memory the model does not track holds, in each word, that word's own index.
Background(a) == ToWord(a)

Read(m, a) == IF a \in DOMAIN m THEN m[a] ELSE Background(a)

Store(m, a, w) == (a :> w) @@ m

RECURSIVE StoreSeq(_, _, _)
StoreSeq(m, a, ws) ==
    IF ws = <<>> THEN m
    ELSE StoreSeq(Store(m, a, Head(ws)), a + 1, Tail(ws))

----------------------------------------------------------------------------
(* struct context                                                          *)

is_in_fixing_range(absolute_addr) ==
    absolute_addr >= basep /\ absolute_addr < endp

get_ref_ins_index(absolute_addr) == absolute_addr - basep

\* get_and_set_current_index and reset_current_ins: dat[idx].insp = outp
set_current_ins(ins, idx, out) == [ins EXCEPT ![idx] = out]

\* insert_fix_map with room for one record only
insert_fix_map_OneEntry(fmap, idx, bp, ls, ad) ==
    IF Len(fmap[idx]) < 1
    THEN [fmap EXCEPT ![idx] = Append(@, [bp |-> bp, ls |-> ls, ad |-> ad])]
    ELSE fmap

\* insert_fix_map: the first free entry takes the record; a full table drops it
insert_fix_map(fmap, idx, bp, ls, ad) ==
    IF Len(fmap[idx]) < A64_MAX_REFERENCES
    THEN [fmap EXCEPT ![idx] = Append(@, [bp |-> bp, ls |-> ls, ad |-> ad])]
    ELSE fmap

\* (int32_t(ins - bp) >> 2) << ls, as a word
FixValue(d, ls) == ToWord(d * P2(ls))

\* process_fix_map that stores the displacement over the recorded word
RECURSIVE process_fix_map_Overwrite(_, _, _)
process_fix_map_Overwrite(m, target, fs) ==
    IF fs = <<>> THEN m
    ELSE LET f == Head(fs)
             v == And32(FixValue(target - f.bp, f.ls), f.ad)
         IN process_fix_map_Overwrite(Store(m, f.bp, v), target, Tail(fs))

\* process_fix_map: OR the displacement into every recorded word
RECURSIVE process_fix_map(_, _, _)
process_fix_map(m, target, fs) ==
    IF fs = <<>> THEN m
    ELSE LET f == Head(fs)
             v == And32(FixValue(target - f.bp, f.ls), f.ad)
         IN process_fix_map(Store(m, f.bp, Or32(Read(m, f.bp), v)), target, Tail(fs))

\* The state a rewriter leaves: it has emitted into m up to out, recorded ins
\* and deferred fmap; then ++(*inpp) and process_fix_map(current_idx).
Finish(m, out, ins, fmap, current_idx) ==
    /\ mem' = process_fix_map(m, ins[current_idx], fmap[current_idx])
    /\ dat_fmap' = [fmap EXCEPT ![current_idx] = <<>>]
    /\ dat_ins' = ins
    /\ dat_end' = [dat_end EXCEPT ![current_idx] = out]
    /\ outp' = out
    /\ inp' = inp + 1
    /\ fcount' = fcount - 1
    /\ log' = Append(log, <<"relocate", inp>>)
    /\ UNCHANGED <<pc, callVars, result, trampoline, original, count, outp_base, basep,
                   endp, index, ret, allocVars>>

----------------------------------------------------------------------------
(* __fix_branch_imm                                                        *)

op_b == W(\h14, 0)
op_bl == W(\h94, 0)
mask_b == W(\hfc, 0)
rmask_b == W(\h03, \hffffff)

IsBranchImm(ins) == And32(ins, mask_b) \in {op_b, op_bl}

\* BranchImmLong that emits the form of B for BL as well
BranchImmLong_AlwaysB(opc, out, absolute_addr) ==
    [nops |-> IF (out + 2) % 2 = 0 THEN 0 ELSE 1,
     body |-> <<LDR_X17_8, BR_X17>> \o Lit64(absolute_addr, 0)]

\* BranchImmLong that pads BL on the alignment test of B
BranchImmLong_SameAlignment(opc, out, absolute_addr) ==
    [nops |-> IF (out + 2) % 2 = 0 THEN 0 ELSE 1,
     body |-> IF opc = op_b
              THEN <<LDR_X17_8, BR_X17>> \o Lit64(absolute_addr, 0)
              ELSE <<LDR_X17_12, ADR_X30_16, BR_X17>> \o Lit64(absolute_addr, 0)]

\* words emitted for an out-of-range B / BL, with the NOP that aligns the literal
BranchImmLong(opc, out, absolute_addr) ==
    LET b_aligned == (out + 2) % 2 = 0
        nop == IF opc = op_b THEN ~b_aligned ELSE b_aligned
        body == IF opc = op_b
                THEN <<LDR_X17_8, BR_X17>> \o Lit64(absolute_addr, 0)
                ELSE <<LDR_X17_12, ADR_X30_16, BR_X17>> \o Lit64(absolute_addr, 0)
    IN [nops |-> IF nop THEN 1 ELSE 0, body |-> body]

__fix_branch_imm ==
    LET ins == Read(mem, inp)
        opc == And32(ins, mask_b)
        current_idx == get_ref_ins_index(inp)
        ins0 == set_current_ins(dat_ins, current_idx, outp)
        absolute_addr == inp + SignExtend(LowBits(ins, 26), 26)
        new_pc_offset == absolute_addr - outp
        special_fix_type == is_in_fixing_range(absolute_addr)
    IN
    /\ pc = "fix" /\ fcount - 1 >= 0
    /\ IsBranchImm(ins)
    /\ IF ~special_fix_type /\ Abs(new_pc_offset) >= LowBits(rmask_b, 26) \div 2
       THEN LET e == BranchImmLong(opc, outp, absolute_addr)
                out1 == outp + e.nops
                m1 == IF e.nops = 1 THEN Store(mem, outp, A64_NOP) ELSE mem
            IN Finish(StoreSeq(m1, out1, e.body), out1 + Len(e.body),
                      set_current_ins(ins0, current_idx, out1), dat_fmap,
                      current_idx)
       ELSE LET ref_idx == get_ref_ins_index(absolute_addr)
                defer == special_fix_type /\ ref_idx > current_idx
                off == IF ~special_fix_type THEN new_pc_offset
                       ELSE IF defer THEN 0
                       ELSE ins0[ref_idx] - outp
                fmap1 == IF defer
                         THEN insert_fix_map(dat_fmap, ref_idx, outp, 0, rmask_b)
                         ELSE dat_fmap
                word == Or32(opc, And32(ToWord(off), Not32(mask_b)))
            IN Finish(Store(mem, outp, word), outp + 1, ins0, fmap1, current_idx)

----------------------------------------------------------------------------
(* __fix_cond_comp_test_branch                                             *)

lsb == 5
lmask01 == W(\hff, \h00001f)
mask0 == W(\hff, \h000010)
op_bc == W(\h54, 0)
mask1 == W(\h7f, 0)
op_cbz == W(\h34, 0)
op_cbnz == W(\h35, 0)
lmask2 == W(\hff, \hf8001f)
mask2 == W(\h7f, 0)
op_tbz == W(\h36, 0)
op_tbnz == W(\h37, 0)
\* a B that skips four words only
B_16 == W(\h14, \h000004)
B_20 == W(\h14, \h000005)

RECURSIVE BitLen(_)
BitLen(n) == IF n = 0 THEN 0 ELSE 1 + BitLen(n \div 2)

\* __builtin_clz
Clz32(w) == IF w[1] # 0 THEN 8 - BitLen(w[1]) ELSE 32 - BitLen(w[2])

IsCondCompTestBranch(ins) ==
    \/ And32(ins, mask0) = op_bc
    \/ And32(ins, mask1) \in {op_cbz, op_cbnz}
    \/ And32(ins, mask2) \in {op_tbz, op_tbnz}

CondLmask(ins) ==
    IF And32(ins, mask0) # op_bc /\ And32(ins, mask1) \notin {op_cbz, op_cbnz}
    THEN lmask2 ELSE lmask01

\* static_cast<int32_t>((ins & ~lmask) << msb) >> (lsb - 2u + msb), in words
CondDisp(ins, lmask) ==
    SignExtend(And32(ins, Not32(lmask))[2] \div P2(lsb), 32 - Clz32(Not32(lmask)) - lsb)

\* ~lmask >> (lsb + 1)
CondLimit(lmask) == Not32(lmask)[2] \div P2(lsb + 1)

__fix_cond_comp_test_branch ==
    LET ins == Read(mem, inp)
        lmask == CondLmask(ins)
        current_idx == get_ref_ins_index(inp)
        ins0 == set_current_ins(dat_ins, current_idx, outp)
        absolute_addr == inp + CondDisp(ins, lmask)
        new_pc_offset == absolute_addr - outp
        special_fix_type == is_in_fixing_range(absolute_addr)
    IN
    /\ pc = "fix" /\ fcount - 1 >= 0
    /\ ~IsBranchImm(ins)
    /\ IsCondCompTestBranch(ins)
    /\ IF ~special_fix_type /\ Abs(new_pc_offset) >= CondLimit(lmask)
       THEN LET nop == (outp + 4) % 2 # 0
                out1 == IF nop THEN outp + 1 ELSE outp
                m1 == IF nop THEN Store(mem, outp, A64_NOP) ELSE mem
                first == Or32(And32(ToWord((8 \div 4) * P2(lsb)), Not32(lmask)),
                              And32(ins, lmask))
                body == <<first, B_20, LDR_X17_8, BR_X17>> \o Lit64(absolute_addr, 0)
            IN Finish(StoreSeq(m1, out1, body), out1 + 6,
                      set_current_ins(ins0, current_idx, out1), dat_fmap,
                      current_idx)
       ELSE LET ref_idx == get_ref_ins_index(absolute_addr)
                defer == special_fix_type /\ ref_idx > current_idx
                off == IF ~special_fix_type THEN new_pc_offset
                       ELSE IF defer THEN 0
                       ELSE ins0[ref_idx] - outp
                fmap1 == IF defer
                         THEN insert_fix_map(dat_fmap, ref_idx, outp, lsb, Not32(lmask))
                         ELSE dat_fmap
                word == Or32(And32(ToWord(off * P2(lsb)), Not32(lmask)),
                             And32(ins, lmask))
            IN Finish(Store(mem, outp, word), outp + 1, ins0, fmap1, current_idx)

----------------------------------------------------------------------------
(* __fix_loadlit                                                           *)

op_prfm == W(\hd8, 0)
mask_op8 == W(\hff, 0)
mask_30 == W(\h40, 0)
mask_31 == W(\h80, 0)
mask_ldr == W(\hbf, 0)
op_ldr == W(\h18, 0)
mask_ldrv == W(\h3f, 0)
op_ldrv == W(\h1c, 0)
mask_ldrsw == W(\hff, 0)
op_ldrsw == W(\h98, 0)
B_4 == W(\h14, \h000001)

IsPrfm(ins) == And32(ins, mask_op8) = op_prfm

IsLoadlit(ins) ==
    \/ IsPrfm(ins)
    \/ And32(ins, mask_ldr) = op_ldr
    \/ And32(ins, mask_ldrv) = op_ldrv
    \/ And32(ins, mask_ldrsw) = op_ldrsw

\* the opcode mask the rewriter settles on
LoadlitMask(ins) ==
    IF And32(ins, mask_ldr) = op_ldr THEN mask_ldr
    ELSE IF And32(ins, mask_ldrv) = op_ldrv THEN mask_ldrv
    ELSE mask_ldrsw

\* faligned: the alignment mask of the literal, in bytes
LoadlitAligned(ins) ==
    LET f0 == IF And32(ins, mask_30) # W(0, 0) THEN 7 ELSE 3
    IN IF And32(ins, mask_ldr) = op_ldr THEN f0
       ELSE IF And32(ins, mask_ldrv) = op_ldrv
            THEN (IF f0 # 7
                  THEN (IF And32(ins, mask_31) # W(0, 0) THEN 15 ELSE 3)
                  ELSE f0)
            ELSE 7

\* (static_cast<int32_t>(ins << msb) >> (msb + lsb - 2u)) & ~3u: the int32_t is
\* converted to unsigned int by the &, so the sum with the int64_t address
\* takes it zero-extended.  In words: sext(imm19) mod 2^30.
Imm19Bytes32(ins) == SignExtend(ins[2] \div P2(lsb), 19) % P2(30)

RECURSIVE Nops(_)
Nops(n) == IF n = 0 THEN <<>> ELSE <<A64_NOP>> \o Nops(n - 1)

\* InlinePad that pads a whole unit when the literal is aligned already
InlinePad_Full(out, faligned) ==
    LET k == (faligned + 1) \div 4
    IN k - ((out + 2) % k)

\* InlinePad that never pads
InlinePad_None(out, faligned) == 0

\* NOPs emitted until (*outpp + 2) & faligned == 0
InlinePad(out, faligned) ==
    LET k == (faligned + 1) \div 4
    IN (k - ((out + 2) % k)) % k

\* NOPs emitted until (new_pc_offset & (faligned >> 2)) == 0
InPlacePad(out, absolute_addr, faligned) ==
    LET k == (faligned \div 4) + 1
    IN (absolute_addr - out) % k

__fix_loadlit ==
    LET ins == Read(mem, inp)
        lmask == lmask01
        mask == LoadlitMask(ins)
        faligned == LoadlitAligned(ins)
        current_idx == get_ref_ins_index(inp)
        ins0 == set_current_ins(dat_ins, current_idx, outp)
        absolute_addr == inp + Imm19Bytes32(ins)
        new_pc_offset == absolute_addr - outp
        special_fix_type == is_in_fixing_range(absolute_addr)
    IN
    /\ pc = "fix" /\ fcount - 1 >= 0
    /\ ~IsBranchImm(ins) /\ ~IsCondCompTestBranch(ins)
    /\ IsLoadlit(ins)
    /\ IF IsPrfm(ins)
       THEN Finish(mem, outp, ins0, dat_fmap, current_idx)
       ELSE IF special_fix_type
               \/ Abs(new_pc_offset) + (faligned + 1 - 4) \div 4 >= CondLimit(lmask)
       THEN LET pad == InlinePad(outp, faligned)
                out1 == outp + pad
                ns == (faligned + 1) \div 4
                load == Or32(And32(ToWord((8 \div 4) * P2(lsb)), Not32(mask)),
                             And32(ins, lmask))
                skip == W(B_4[1], B_4[2] + ns)
                data == [k \in 1..ns |-> Read(mem, absolute_addr + k - 1)]
                body == Nops(pad) \o <<load, skip>> \o data
            IN Finish(StoreSeq(mem, outp, body), out1 + 2 + ns,
                      set_current_ins(ins0, current_idx, out1), dat_fmap,
                      current_idx)
       ELSE LET pad == InPlacePad(outp, absolute_addr, faligned)
                out1 == outp + pad
                off == absolute_addr - out1
                word == Or32(And32(ToWord(off * P2(lsb)), Not32(mask)),
                             And32(ins, lmask))
            IN Finish(StoreSeq(mem, outp, Nops(pad) \o <<word>>), out1 + 1,
                      set_current_ins(ins0, current_idx, out1), dat_fmap,
                      current_idx)

----------------------------------------------------------------------------
(* __fix_pcreladdr                                                         *)

mask_adr == W(\h9f, 0)
rmask_adr == W(0, \h00001f)
fmask == W(0, \hffffff)
max_val == W(0, \h1fffff)
op_adr == W(\h10, 0)
op_adrp == W(\h90, 0)
op_ldr_x == W(\h58, 0)
B_12 == W(\h14, \h000003)

IsPcreladdr(ins) == And32(ins, mask_adr) \in {op_adr, op_adrp}

\* static_cast<uint32_t>(ins << 1u) >> 30u
ImmLo(ins) == (ins[1] \div 32) % 4

\* llabs of the byte quantity 4 * wd + b, compared with lim (below 2^22)
BytesAtLeast(wd, b, lim) ==
    IF Abs(wd) >= P2(20) THEN TRUE ELSE Abs(4 * wd + b) >= lim

\* ADRP: ((sext(immhi) * 4 & ~3u) | immlo) << 12 is computed in unsigned int and
\* added zero-extended.  In words: (sext(imm21) * 1024) mod 2^30.
AdrpPages32(ins) ==
    ((SignExtend(ins[2] \div P2(lsb), 19) * 4 + ImmLo(ins)) * 1024) % P2(30)

\* LDR Xd, #8 ; B #12 ; <absolute_addr>, after the NOP that aligns the literal
PcrelLiteral(ins, out, aw, ab) ==
    LET nop == (out + 2) % 2 # 0
        load == Or32(Or32(op_ldr_x, And32(ToWord((8 \div 4) * P2(lsb)), Not32(mask_adr))),
                     And32(ins, rmask_adr))
    IN [nops |-> IF nop THEN 1 ELSE 0,
        body |-> <<load, B_12>> \o Lit64(aw, ab)]

__fix_pcreladdr ==
    LET ins == Read(mem, inp)
        lmask == lmask01
        current_idx == get_ref_ins_index(inp)
        ins0 == set_current_ins(dat_ins, current_idx, outp)
    IN
    /\ pc = "fix" /\ fcount - 1 >= 0
    /\ ~IsBranchImm(ins) /\ ~IsCondCompTestBranch(ins) /\ ~IsLoadlit(ins)
    /\ IsPcreladdr(ins)
    /\ IF And32(ins, mask_adr) = op_adr
       THEN LET lsb_bytes == ImmLo(ins)
                aw == inp + Imm19Bytes32(ins)
                wd == aw - outp
                special_fix_type == is_in_fixing_range(aw)
            IN IF ~special_fix_type
                  /\ BytesAtLeast(wd, lsb_bytes, (max_val[2] \div 2))
               THEN LET e == PcrelLiteral(ins, outp, aw, lsb_bytes)
                        out1 == outp + e.nops
                        m1 == IF e.nops = 1 THEN Store(mem, outp, A64_NOP) ELSE mem
                    IN Finish(StoreSeq(m1, out1, e.body), out1 + 4,
                              set_current_ins(ins0, current_idx, out1), dat_fmap,
                              current_idx)
               ELSE LET ref_idx == get_ref_ins_index(aw)
                        defer == special_fix_type /\ ref_idx > current_idx
                        off == IF ~special_fix_type THEN 4 * wd + lsb_bytes
                               ELSE IF defer THEN 0
                               ELSE 4 * (ins0[ref_idx] - outp)
                        fmap1 == IF defer
                                 THEN insert_fix_map(dat_fmap, ref_idx, outp, lsb, fmask)
                                 ELSE dat_fmap
                        word == Or32(And32(ToWord(off * P2(lsb - 2)), fmask),
                                     And32(ins, lmask))
                    IN Finish(Store(mem, outp, word), outp + 1, ins0, fmap1,
                              current_idx)
       ELSE LET aw == (inp \div 1024) * 1024 + AdrpPages32(ins)
            IN IF is_in_fixing_range(aw)
               THEN Finish(Store(mem, outp, ins), outp + 1, ins0, dat_fmap,
                           current_idx)
               ELSE LET e == PcrelLiteral(ins, outp, aw, 0)
                        out1 == outp + e.nops
                        m1 == IF e.nops = 1 THEN Store(mem, outp, A64_NOP) ELSE mem
                    IN Finish(StoreSeq(m1, out1, e.body), out1 + 4,
                              set_current_ins(ins0, current_idx, out1), dat_fmap,
                              current_idx)

----------------------------------------------------------------------------
(* __fix_instructions                                                      *)

mask_tail == W(\h03, \hffffff)

\* CopyInstruction that emits a NOP in place of the instruction
CopyInstruction_Nop ==
    LET ins == Read(mem, inp)
        current_idx == get_ref_ins_index(inp)
        ins0 == set_current_ins(dat_ins, current_idx, outp)
    IN
    /\ pc = "fix" /\ fcount - 1 >= 0
    /\ ~IsBranchImm(ins) /\ ~IsCondCompTestBranch(ins) /\ ~IsLoadlit(ins)
    /\ ~IsPcreladdr(ins)
    /\ Finish(Store(mem, outp, A64_NOP), outp + 1, ins0, dat_fmap, current_idx)

\* an instruction none of the four rewriters recognises is copied
CopyInstruction ==
    LET ins == Read(mem, inp)
        current_idx == get_ref_ins_index(inp)
        ins0 == set_current_ins(dat_ins, current_idx, outp)
    IN
    /\ pc = "fix" /\ fcount - 1 >= 0
    /\ ~IsBranchImm(ins) /\ ~IsCondCompTestBranch(ins) /\ ~IsLoadlit(ins)
    /\ ~IsPcreladdr(ins)
    /\ Finish(Store(mem, outp, ins), outp + 1, ins0, dat_fmap, current_idx)

\* TailJump that aims one word past the first instruction not displaced
TailJump_OffByOne(out, callback) ==
    LET pc_offset == callback + 1 - out
    IN IF Abs(pc_offset) >= LowBits(mask_tail, 26) \div 2
       THEN (IF (out + 2) % 2 # 0 THEN <<A64_NOP>> ELSE <<>>)
            \o <<LDR_X17_8, BR_X17>> \o Lit64(callback + 1, 0)
       ELSE <<Or32(op_b, And32(ToWord(pc_offset), mask_tail))>>

\* the jump back to the first instruction that was not displaced
TailJump(out, callback) ==
    LET pc_offset == callback - out
    IN IF Abs(pc_offset) >= LowBits(mask_tail, 26) \div 2
       THEN (IF (out + 2) % 2 # 0 THEN <<A64_NOP>> ELSE <<>>)
            \o <<LDR_X17_8, BR_X17>> \o Lit64(callback, 0)
       ELSE <<Or32(op_b, And32(ToWord(pc_offset), mask_tail))>>

EmitTailJump ==
    /\ pc = "fix" /\ fcount - 1 < 0
    /\ fcount' = fcount - 1
    /\ mem' = StoreSeq(mem, outp, TailJump(outp, inp))
    /\ outp' = outp + Len(TailJump(outp, inp))
    /\ log' = Append(log, <<"tail", outp>>)
    /\ pc' = "flush_trampoline"
    /\ UNCHANGED <<callVars, result, trampoline, original, count, inp, outp_base,
                   basep, endp, dat_ins, dat_fmap, dat_end, index, ret, allocVars>>

\* FlushTrampoline without the cache flush
FlushTrampoline_Forgotten ==
    /\ pc = "flush_trampoline"
    /\ pc' = "make_rwx"
    /\ UNCHANGED <<mem, callVars, result, trampoline, original, count, log,
                   relocVarsNoLogMem, outp_base, basep, endp, index, ret, allocVars>>

\* __flush_cache(outp_base, total)
FlushTrampoline ==
    /\ pc = "flush_trampoline"
    /\ log' = Append(log, <<"flush", outp_base, outp - outp_base>>)
    /\ pc' = "make_rwx"
    /\ UNCHANGED <<mem, callVars, result, trampoline, original, count,
                   relocVarsNoLogMem, outp_base, basep, endp, index, ret, allocVars>>

----------------------------------------------------------------------------
(* Trampoline pool and FastAllocateTrampoline                              *)

\* __insns_pool: page aligned, A64_MAX_BACKUPS slots of A64_MAX_INSTRUCTIONS * 10 words
PoolBase == \h4100000
SlotWords == A64_MAX_INSTRUCTIONS * 10
PoolSlot(i) == PoolBase + i * SlotWords

\* __sync_add_and_fetch(p, 1) on an int32_t
INT32_MAX == 2147483647
AtomicIncrease(v) == IF v = INT32_MAX THEN (-INT32_MAX) - 1 ELSE v + 1

\* what FastAllocateTrampoline returns for the index it drew
SlotOrNull(i) == IF i >= 0 /\ i < A64_MAX_BACKUPS THEN PoolSlot(i) ELSE NULL

----------------------------------------------------------------------------
(* A64HookFunctionV                                                        *)

mask_hook == W(\h03, \hffffff)

\* llabs(pc_offset) >= (mask >> 1): the replacement is out of reach of one B
IsLongPatch(pc_offset) == Abs(pc_offset) >= LowBits(mask_hook, 26) \div 2

\* LongCount with the alignment test inverted
LongCount_Inverted(orig) == IF (orig + 2) % 2 # 0 THEN 4 ELSE 5

\* count of the long patch: 5 when the literal needs a NOP in front
LongCount(orig) == IF (orig + 2) % 2 # 0 THEN 5 ELSE 4

\* the size test on the caller's buffer
RwxTooSmall(size, n) == size < n * 10

\* the words the long patch stores, from orig on
LongPrologue(n, target) ==
    (IF n = 5 THEN <<A64_NOP>> ELSE <<>>) \o <<LDR_X17_8, BR_X17>> \o Lit64(target, 0)

\* ShortPrologue without the & mask
ShortPrologue_Unmasked(pc_offset) == Or32(op_b, ToWord(pc_offset))

\* the word the short patch stores
ShortPrologue(pc_offset) == Or32(op_b, And32(ToWord(pc_offset), mask_hook))

ZeroDat == [i \in 0..(A64_MAX_INSTRUCTIONS - 1) |-> 0]
EmptyFmap == [i \in 0..(A64_MAX_INSTRUCTIONS - 1) |-> <<>>]

\* entry of A64HookFunctionV up to the call of __fix_instructions (context set
\* up, nothing emitted yet), the early return, or the jump to __make_rwx
HookV_Begin ==
    LET pc_offset == replace - symbol
        n == IF IsLongPatch(pc_offset) THEN LongCount(original) ELSE 1
    IN
    /\ pc = "entry"
    /\ count' = n
    /\ IF trampoline # NULL
       THEN IF RwxTooSmall(rwx_size, n)
            THEN /\ ret' = NULL
                 /\ pc' = IF api = "hook" THEN "hook_return" ELSE "done"
                 /\ UNCHANGED <<inp, outp, outp_base, basep, endp, fcount>>
            ELSE /\ inp' = original /\ outp' = trampoline
                 /\ outp_base' = trampoline
                 /\ basep' = original /\ endp' = original + n
                 /\ fcount' = n
                 /\ pc' = "fix"
                 /\ UNCHANGED ret
       ELSE /\ pc' = "make_rwx"
            /\ UNCHANGED <<inp, outp, outp_base, basep, endp, fcount, ret>>
    /\ dat_ins' = ZeroDat /\ dat_fmap' = EmptyFmap
    /\ UNCHANGED <<mem, callVars, dat_end, result, trampoline, original, index, log,
                   allocVars>>

\* MakeRwx that leaves trampoline set when mprotect fails
MakeRwx_KeepsTrampoline ==
    /\ pc = "make_rwx"
    /\ \E ok \in BOOLEAN :
         /\ log' = Append(log, <<"mprotect", original, ok>>)
         /\ pc' = IF ok THEN "patch" ELSE "return"
    /\ UNCHANGED <<mem, callVars, result, trampoline, original, count,
                   relocVarsNoLogMem, outp_base, basep, endp, index, ret, allocVars>>

\* __make_rwx(original, len): mprotect succeeds or fails
MakeRwx ==
    /\ pc = "make_rwx"
    /\ \E ok \in BOOLEAN :
         /\ log' = Append(log, <<"mprotect", original, ok>>)
         /\ IF ok
            THEN pc' = "patch" /\ UNCHANGED trampoline
            ELSE pc' = "return" /\ trampoline' = NULL
    /\ UNCHANGED <<mem, callVars, result, original, count, relocVarsNoLogMem,
                   outp_base, basep, endp, index, ret, allocVars>>

\* the stores at symbol: the long patch, or the compare-and-swap of one B
Patch ==
    LET pc_offset == replace - symbol
        first == IF count = 5 THEN original + 1 ELSE original
    IN
    /\ pc = "patch"
    /\ IF IsLongPatch(pc_offset)
       THEN /\ mem' = StoreSeq(mem, original, LongPrologue(count, replace))
            /\ original' = first
            /\ log' = Append(log, <<"store", symbol, Len(LongPrologue(count, replace))>>)
       ELSE \* __sync_cmpswap(original, *original, new): the expected value is
            \* read by this thread just before; no other thread writes here
            /\ mem' = Store(mem, original, ShortPrologue(pc_offset))
            /\ original' = original
            /\ log' = Append(log, <<"store", symbol, 1>>)
    /\ pc' = "flush_symbol"
    /\ UNCHANGED <<callVars, result, trampoline, count, relocVarsNoLogMem,
                   outp_base, basep, endp, index, ret, allocVars>>

\* __flush_cache(symbol, n)
FlushSymbol ==
    /\ pc = "flush_symbol"
    /\ log' = Append(log, <<"flush", symbol,
                           IF IsLongPatch(replace - symbol) THEN 5 ELSE 1>>)
    /\ pc' = "return"
    /\ UNCHANGED <<mem, callVars, result, trampoline, original, count,
                   relocVarsNoLogMem, outp_base, basep, endp, index, ret, allocVars>>

\* return trampoline
HookV_Return ==
    /\ pc = "return"
    /\ ret' = trampoline
    /\ pc' = IF api = "hook" THEN "hook_return" ELSE "done"
    /\ UNCHANGED <<mem, callVars, result, trampoline, original, count,
                   relocVarsNoLogMem, outp_base, basep, endp, index, log, allocVars>>

----------------------------------------------------------------------------
(* A64HookFunction                                                         *)

\* trampoline = FastAllocateTrampoline(); *result = trampoline; return if NULL
Hook_Allocate ==
    LET i == AtomicIncrease(index)
    IN
    /\ pc = "hook_alloc"
    /\ index' = i
    /\ trampoline' = SlotOrNull(i)
    /\ result' = SlotOrNull(i)
    /\ pc' = IF SlotOrNull(i) = NULL THEN "done" ELSE "hook_make_rwx"
    /\ UNCHANGED <<mem, callVars, original, count, relocVarsNoLogMem, outp_base,
                   basep, endp, ret, log, allocVars>>

\* __make_rwx(symbol, 5 * sizeof(size_t)), its result ignored, then the call
\* A64HookFunctionV(symbol, replace, trampoline, A64_MAX_INSTRUCTIONS * 10u)
Hook_MakeRwx ==
    /\ pc = "hook_make_rwx"
    /\ \E ok \in BOOLEAN : log' = Append(log, <<"mprotect", symbol, ok>>)
    /\ rwx_size' = A64_MAX_INSTRUCTIONS * 10
    /\ original' = symbol
    /\ pc' = "entry"
    /\ UNCHANGED <<mem, api, symbol, replace, text0, result, trampoline, count,
                   relocVarsNoLogMem, outp_base, basep, endp, index, ret, allocVars>>

\* Hook_Return that leaves *result as the allocation wrote it
Hook_Return_KeepsResult ==
    /\ pc = "hook_return"
    /\ pc' = "done"
    /\ UNCHANGED <<mem, callVars, result, trampoline, original, count,
                   relocVarsNoLogMem, outp_base, basep, endp, index, ret, log,
                   allocVars>>

\* if (trampoline == NULL && result != NULL) *result = NULL
Hook_Return ==
    /\ pc = "hook_return"
    /\ result' = IF ret = NULL /\ result # NoCell THEN NULL ELSE result
    /\ pc' = "done"
    /\ UNCHANGED <<mem, callVars, trampoline, original, count, relocVarsNoLogMem,
                   outp_base, basep, endp, index, ret, log, allocVars>>

----------------------------------------------------------------------------
(* What the emitted words do when the processor runs them: the A64          *)
(* instructions the relocator reads and writes, as its comments give them   *)

Imm26(ins) == SignExtend(LowBits(ins, 26), 26)
Imm19(ins) == SignExtend((ins[2] \div 32) % P2(19), 19)
Imm14(ins) == SignExtend((ins[2] \div 32) % P2(14), 14)
Imm21(ins) ==
    SignExtend(((ins[2] \div 32) % P2(19)) * 4 + ((ins[1] \div 32) % 4), 21)
Rt(ins) == ins[2] % 32

\* the register file a literal load writes, and the words it reads
LitClass(ins) ==
    CASE ins[1] = \h18 -> "w" [] ins[1] = \h58 -> "x" [] ins[1] = \h98 -> "sw"
      [] ins[1] = \h1c -> "s" [] ins[1] = \h5c -> "d" [] OTHER -> "q"
LitWords(ins) ==
    CASE ins[1] \in {\h18, \h98, \h1c} -> 1 [] ins[1] \in {\h58, \h5c} -> 2
      [] OTHER -> 4

\* the instructions with a PC-relative operand, by their encodings: B / BL,
\* B.cond, CBZ / CBNZ, TBZ / TBNZ, the literal loads with PRFM, ADR / ADRP
IsPcRelative(ins) ==
    \/ ins[1] \div 4 \in {\h05, \h25}
    \/ ins[1] = \h54 /\ (ins[2] \div 16) % 2 = 0
    \/ ins[1] % 128 \in {\h34, \h35, \h36, \h37}
    \/ ins[1] % 64 \in {\h18, \h1c}
    \/ ins[1] % 32 = \h10

\* the word address a branch or ADR at a refers to (NULL for other words)
RefTarget(ins, a) ==
    CASE ins[1] \div 4 \in {\h05, \h25} -> a + Imm26(ins)
      [] ins[1] = \h54 /\ (ins[2] \div 16) % 2 = 0 -> a + Imm19(ins)
      [] ins[1] % 128 \in {\h34, \h35} -> a + Imm19(ins)
      [] ins[1] % 128 \in {\h36, \h37} -> a + Imm14(ins)
      [] ins[1] % 32 = \h10 /\ ins[1] < 128 -> a + (Imm21(ins) \div 4)
      [] OTHER -> NULL

NoLink == 0 - 3
ExecFuel == 8

\* a processor about to run the word at a
Start(a) == [at |-> a, x17 |-> <<>>, writes |-> {}, link |-> NoLink, ok |-> TRUE]

\* the branch target a conditional instruction encodes
CondTarget(ins) ==
    IF And32(ins, mask0) = op_bc \/ And32(ins, mask1) \in {op_cbz, op_cbnz}
    THEN Imm19(ins) ELSE Imm14(ins)

\* what is tested: everything of the word but the displacement
CondId(ins) ==
    IF And32(ins, mask0) = op_bc \/ And32(ins, mask1) \in {op_cbz, op_cbnz}
    THEN And32(ins, lmask01) ELSE And32(ins, lmask2)

\* one instruction; cond says which condition the run is about and whether it
\* holds.  X17 is scratch: a load into it is not an effect.
Step(m, st, cond) ==
    LET a == st.at
        ins == Read(m, a)
    IN CASE ins = A64_NOP \/ IsPrfm(ins) -> [st EXCEPT !.at = a + 1]
         [] ins = BR_X17 ->
              IF Len(st.x17) = 2 /\ st.x17[2][1] = 0 /\ st.x17[2][2] <= 1
                 /\ st.x17[1][2] % 4 = 0
              THEN [st EXCEPT !.at = Val64(st.x17[1], st.x17[2])[1]]
              ELSE [st EXCEPT !.ok = FALSE]
         [] And32(ins, mask_b) = op_b -> [st EXCEPT !.at = a + Imm26(ins)]
         [] And32(ins, mask_b) = op_bl ->
              [st EXCEPT !.at = a + Imm26(ins), !.link = a + 1]
         [] ~IsBranchImm(ins) /\ IsCondCompTestBranch(ins) ->
              IF CondId(ins) # cond.id THEN [st EXCEPT !.ok = FALSE]
              ELSE [st EXCEPT !.at = IF cond.taken THEN a + CondTarget(ins) ELSE a + 1]
         [] ~IsBranchImm(ins) /\ ~IsCondCompTestBranch(ins) /\ ~IsPrfm(ins)
            /\ IsLoadlit(ins) ->
              LET v == [k \in 1..LitWords(ins) |-> Read(m, a + Imm19(ins) + k - 1)]
              IN IF Rt(ins) = 17 /\ LitClass(ins) \in {"w", "x", "sw"}
                 THEN [st EXCEPT !.at = a + 1, !.x17 = v]
                 ELSE [st EXCEPT !.at = a + 1,
                                 !.writes = @ \cup {<<LitClass(ins), Rt(ins), v>>}]
         [] ~IsBranchImm(ins) /\ ~IsCondCompTestBranch(ins) /\ ~IsLoadlit(ins)
            /\ And32(ins, mask_adr) = op_adr ->
              LET aw == a + (Imm21(ins) \div 4)
                  ab == Imm21(ins) % 4
              IN IF Rt(ins) = 30 /\ ab = 0
                 THEN [st EXCEPT !.at = a + 1, !.link = aw]
                 ELSE [st EXCEPT !.at = a + 1,
                                 !.writes = @ \cup {<<"x", Rt(ins), Lit64(aw, ab)>>}]
         [] ~IsBranchImm(ins) /\ ~IsCondCompTestBranch(ins) /\ ~IsLoadlit(ins)
            /\ And32(ins, mask_adr) = op_adrp ->
              [st EXCEPT !.at = a + 1,
                         !.writes = @ \cup {<<"x", Rt(ins),
                             Lit64((a \div 1024) * 1024 + Imm21(ins) * 1024, 0)>>}]
         [] OTHER -> [st EXCEPT !.at = a + 1,
                                !.writes = @ \cup {<<"insn", 0, <<ins>>>>}]

\* run from st while execution stays inside lo .. hi - 1
RECURSIVE Run(_, _, _, _, _, _)
Run(m, st, lo, hi, cond, fuel) ==
    IF ~st.ok \/ st.at < lo \/ st.at >= hi THEN st
    ELSE IF fuel = 0 THEN [st EXCEPT !.ok = FALSE]
    ELSE Run(m, Step(m, st, cond), lo, hi, cond, fuel - 1)

NoCond == [id |-> W(0, 0), taken |-> FALSE]

\* executing A64_NOPs from t arrives at target
NopsLead(m, t, target) ==
    /\ t <= target /\ target - t <= 3
    /\ \A x \in t..(target - 1) : Read(m, x) = A64_NOP

\* the trampoline address ta stands for the original address oa: a displaced
\* instruction is stood for by its copy, the word after the window by itself or
\* by the tail jump, any other address by itself
Corr(oa, ta) ==
    IF is_in_fixing_range(oa) THEN NopsLead(mem, ta, dat_ins[oa - basep])
    ELSE IF oa = endp THEN ta = oa \/ ta = dat_end[count - 1]
    ELSE ta = oa

\* register effects agree: the same register gets the same value, or the two
\* values are code addresses that stand for each other
IsAddr(v) == Len(v) = 2 /\ v[2][1] = 0 /\ v[2][2] <= 1 /\ v[1][2] % 4 = 0
SameWrite(wo, wt) ==
    /\ wo[1] = wt[1] /\ wo[2] = wt[2]
    /\ \/ wo[3] = wt[3]
       \/ /\ wo[1] = "x" /\ IsAddr(wo[3]) /\ IsAddr(wt[3])
          /\ is_in_fixing_range(Val64(wo[3][1], wo[3][2])[1])
          /\ Corr(Val64(wo[3][1], wo[3][2])[1], Val64(wt[3][1], wt[3][2])[1])

\* displaced instruction i and its copy in the trampoline do the same
Equivalent(i, taken) ==
    LET ins == Read(text0, basep + i)
        cond == [id |-> IF IsCondCompTestBranch(ins) THEN CondId(ins) ELSE W(0, 0),
                 taken |-> taken]
        o == Step(text0, Start(basep + i), cond)
        t == Run(mem, Start(dat_ins[i]), dat_ins[i], dat_end[i], cond, ExecFuel)
    IN /\ o.ok /\ t.ok
       /\ \A wo \in o.writes : \E wt \in t.writes : SameWrite(wo, wt)
       /\ \A wt \in t.writes : \E wo \in o.writes : SameWrite(wo, wt)
       /\ IF o.link = NoLink THEN t.link = NoLink
          ELSE t.link # NoLink /\ Corr(o.link, t.link)
       /\ Corr(o.at, t.at)

\* where the tail jump of the finished trampoline goes
TailTarget ==
    Run(mem, Start(dat_end[count - 1]), dat_end[count - 1], outp, NoCond, ExecFuel)

\* where a call of symbol goes through the words now at symbol
EntryTarget == Run(mem, Start(symbol), symbol, symbol + count, NoCond, ExecFuel)

----------------------------------------------------------------------------
(* The hooked function, the callers' arguments, and the calls              *)

SymBase == \h4000000
SymbolSet == {SymBase, SymBase + 1}
FuncWords == 6

ReplaceSet(sym) ==
    {sym + 64, sym - (P2(25) - 2), sym + P2(25) - 1, sym - (P2(25) - 1),
     sym + P2(26)}

RwxNear == \h4000400
RwxFar == \h20000000
RwxSet == {NULL} \cup {RwxNear + a : a \in 0..1} \cup {RwxFar + a : a \in 0..3}
RwxSizeSet == {8, 12, 40, 200}

\* instruction words for the hooked function's first instructions
EncB(op, off) == Or32(op, And32(ToWord(off), rmask_b))
EncImm(op, off, w, low) == Or32(op, W(0, (off % P2(w)) * P2(lsb) + low))
EncAdr(op, imm, rd) == Or32(op, W((imm % 4) * 32, ((imm \div 4) % P2(19)) * P2(lsb) + rd))

ADD_X0_X0_1 == W(\h91, \h000400)
RET == W(\hd6, \h5f03c0)
MOV_X1_X0 == W(\haa, \h0003e1)
SUB_SP == W(\hd1, \h0043ff)
STP_FP_LR == W(\ha9, \h007bfd)
MOV_FP_SP == W(\h91, \h0003fd)

\* the words a hooked function may hold at word k of its entry
InsChoice(k) ==
    CASE k = 0 -> {ADD_X0_X0_1, EncImm(W(\h9c, 0), \h1000, 19, 0)}
      [] k = 1 -> {RET, EncImm(op_bc, 2, 19, 1)}
      [] k = 2 -> {MOV_X1_X0, EncB(op_bl, \h2000)}
      [] k = 3 -> {SUB_SP}
      [] k = 4 -> {STP_FP_LR, EncAdr(op_adr, -16, 3)}
      [] OTHER -> {MOV_FP_SP}

\* the functions at f: the first A64_MAX_INSTRUCTIONS words drawn from
\* InsChoice, the words after them fixed
FunctionsAt(f) ==
    {[a \in f..(f + FuncWords - 1) |->
        CASE a - f = 0 -> w0
          [] a - f = 1 -> w1
          [] a - f = 2 -> w2
          [] a - f = 3 -> w3
          [] a - f = 4 -> w4
          [] OTHER -> MOV_FP_SP] :
     w0 \in InsChoice(0), w1 \in InsChoice(1), w2 \in InsChoice(2),
     w3 \in InsChoice(3), w4 \in InsChoice(4)}

IndexSet == {-1, A64_MAX_BACKUPS - 1}

Init ==
    /\ \E f \in SymbolSet : mem \in FunctionsAt(f)
    /\ index \in IndexSet
    /\ pc = "idle"
    /\ api = "none" /\ symbol = NULL /\ replace = NULL /\ result = NoCell
    /\ rwx_size = 0 /\ trampoline = NULL /\ original = NULL
    /\ count = 0 /\ fcount = 0 /\ inp = NULL /\ outp = NULL /\ outp_base = NULL
    /\ basep = 0 /\ endp = 0
    /\ dat_ins = ZeroDat /\ dat_fmap = EmptyFmap /\ dat_end = ZeroDat
    /\ text0 = mem
    /\ ret = Unset /\ log = <<>>
    /\ tpc = <<>> /\ ti = <<>> /\ tgot = <<>> /\ ncalls = 0

\* the address of the function in memory
FuncAddr == CHOOSE a \in DOMAIN mem : a - 1 \notin DOMAIN mem

\* A64HookFunctionV(symbol, replace, rwx, rwx_size) is called
Call_HookV ==
    /\ pc = "idle"
    /\ \E rep \in ReplaceSet(FuncAddr), rwx \in RwxSet, size \in RwxSizeSet :
         /\ api' = "hook_v" /\ symbol' = FuncAddr /\ replace' = rep
         /\ trampoline' = rwx /\ rwx_size' = size
         /\ original' = FuncAddr
    /\ pc' = "entry"
    /\ UNCHANGED <<mem, text0, result, count, relocVarsNoLogMem, outp_base, basep, endp,
                   index, ret, log, allocVars>>

\* A64HookFunction(symbol, replace, result) is called
Call_Hook ==
    /\ pc = "idle"
    /\ \E rep \in ReplaceSet(FuncAddr), want \in BOOLEAN :
         /\ api' = "hook" /\ symbol' = FuncAddr /\ replace' = rep
         /\ result' = IF want THEN Unset ELSE NoCell
         /\ pc' = IF want THEN "hook_alloc" ELSE "hook_make_rwx"
    /\ trampoline' = NULL
    /\ UNCHANGED <<mem, text0, rwx_size, original, count, relocVarsNoLogMem, outp_base,
                   basep, endp, index, ret, log, allocVars>>

Relocate ==
    \/ __fix_branch_imm
    \/ __fix_cond_comp_test_branch
    \/ __fix_loadlit
    \/ __fix_pcreladdr
    \/ CopyInstruction
    \/ EmitTailJump
    \/ FlushTrampoline

Next ==
    \/ Call_HookV
    \/ Call_Hook
    \/ Hook_Allocate
    \/ Hook_MakeRwx
    \/ HookV_Begin
    \/ Relocate
    \/ MakeRwx
    \/ Patch
    \/ FlushSymbol
    \/ HookV_Return
    \/ Hook_Return

Spec == Init /\ [][Next]_vars

----------------------------------------------------------------------------
(* FastAllocateTrampoline called from several threads                      *)

NThreads == 2
MaxCalls == 6
Threads == 1..NThreads

\* everything but the allocator's state
hookVars == <<mem, pc, api, symbol, replace, result, rwx_size, trampoline, original,
              count, fcount, inp, outp, outp_base, basep, endp, dat_ins, dat_fmap,
              dat_end, text0, ret, log>>

\* the pool is fresh, or all but its last three slots have been handed out
AllocIndexSet == {-1, A64_MAX_BACKUPS - 4}

InitAlloc ==
    /\ mem = [a \in SymBase..(SymBase + FuncWords - 1) |-> MOV_FP_SP]
    /\ index \in AllocIndexSet
    /\ pc = "idle"
    /\ api = "none" /\ symbol = NULL /\ replace = NULL /\ result = NoCell
    /\ rwx_size = 0 /\ trampoline = NULL /\ original = NULL
    /\ count = 0 /\ fcount = 0 /\ inp = NULL /\ outp = NULL /\ outp_base = NULL
    /\ basep = 0 /\ endp = 0
    /\ dat_ins = ZeroDat /\ dat_fmap = EmptyFmap /\ dat_end = ZeroDat
    /\ text0 = mem
    /\ ret = Unset /\ log = <<>>
    /\ tpc = [t \in Threads |-> "idle"]
    /\ ti = [t \in Threads |-> 0]
    /\ tgot = [i \in 0..(A64_MAX_BACKUPS - 1) |-> IF i <= index THEN 1 ELSE 0]
    /\ ncalls = 0

\* a thread enters FastAllocateTrampoline
T_Call(t) ==
    /\ tpc[t] \in {"idle", "failed"}
    /\ ncalls < MaxCalls
    /\ ncalls' = ncalls + 1
    /\ tpc' = [tpc EXCEPT ![t] = "increase"]
    /\ UNCHANGED <<hookVars, index, ti, tgot>>

\* int32_t i = __atomic_increase(&__index)
T_Increase(t) ==
    /\ tpc[t] = "increase"
    /\ index' = AtomicIncrease(index)
    /\ ti' = [ti EXCEPT ![t] = AtomicIncrease(index)]
    /\ tpc' = [tpc EXCEPT ![t] = "return"]
    /\ UNCHANGED <<hookVars, tgot, ncalls>>

\* return __insns_pool[i], or NULL
T_Return(t) ==
    /\ tpc[t] = "return"
    /\ IF SlotOrNull(ti[t]) # NULL
       THEN /\ tgot' = [tgot EXCEPT ![ti[t]] = @ + 1]
            /\ tpc' = [tpc EXCEPT ![t] = "install"]
       ELSE /\ tgot' = tgot
            /\ tpc' = [tpc EXCEPT ![t] = "failed"]
    /\ UNCHANGED <<hookVars, index, ti, ncalls>>

\* the install that took the slot succeeds or fails; nothing gives a slot back
T_Install(t) ==
    /\ tpc[t] = "install"
    /\ \E ok \in BOOLEAN : tpc' = [tpc EXCEPT ![t] = IF ok THEN "idle" ELSE "failed"]
    /\ UNCHANGED <<hookVars, index, ti, tgot, ncalls>>

\* a run of calls by one thread, each of which draws an index outside the pool
\* and returns NULL: up to INT32_MAX from an exhausted pool, up to -1 from a
\* negative index
T_ExhaustedCalls(t) ==
    /\ tpc[t] \in {"idle", "failed"}
    /\ \/ index >= A64_MAX_BACKUPS - 1 /\ index < INT32_MAX /\ index' = INT32_MAX
       \/ index < 0 - 1 /\ index' = 0 - 1
    /\ tpc' = [tpc EXCEPT ![t] = "failed"]
    /\ UNCHANGED <<hookVars, ti, tgot, ncalls>>

NextAlloc ==
    \E t \in Threads :
        \/ T_Call(t)
        \/ T_Increase(t)
        \/ T_Return(t)
        \/ T_Install(t)
        \/ T_ExhaustedCalls(t)

SpecAlloc == InitAlloc /\ [][NextAlloc]_vars

----------------------------------------------------------------------------
(* The relocator over windows of every instruction kind                    *)

\* a function whose first words are ws
Window(f, ws) ==
    [a \in f..(f + FuncWords - 1) |->
        IF a - f < Len(ws) THEN ws[a - f + 1] ELSE MOV_FP_SP]

\* first instructions whose operand lies outside the window (or is none):
\* instructions that are copied, branches forward, backward and around the
\* reach of B from the near buffer, conditional branches of every kind,
\* and around the reach of their fields from the near buffer, literal loads of
\* every kind before and after the near buffer and before the function, PRFM,
\* ADR to aligned and unaligned bytes, ADRP
RelocFirst ==
    {ADD_X0_X0_1, RET, W(\hf9, \h400020), W(\hd4, \h000001), W(\h1a, 0),
     W(\h9b, \h007c00)}
    \cup {EncB(op_b, \h2000), EncB(op_bl, \h2000), EncB(op_b, 0 - \h100),
          EncB(op_b, \h400 - P2(25) + 3), EncB(op_bl, \h400 - P2(25) + 3)}
    \cup {EncImm(op_bc, 2, 19, 1), EncImm(op_cbz, 0 - 4, 19, 2),
          EncImm(W(\hb5, 0), \h100, 19, 3), EncImm(op_tbz, \h40, 14, 4),
          Or32(EncImm(op_tbnz, 0 - \h20, 14, 5), W(\h80, \h180000)),
          EncImm(op_bc, \h400 - P2(18) + 3, 19, 11),
          EncImm(op_tbz, \h400 - P2(13) + 3, 14, 9)}
    \cup {EncImm(W(op, 0), d, 19, 1) :
            op \in {\h18, \h58, \h98, \h1c, \h5c, \h9c}, d \in {\h100, \h1000, 0 - 2}}
    \cup {EncImm(op_prfm, \h100, 19, 0)}
    \cup {EncAdr(op_adr, 0 - 16, 3), EncAdr(op_adr, 5, 0), EncAdr(op_adr, \h1004, 0),
          EncAdr(op_adr, \h1006, 5), EncAdr(op_adr, 0, 7)}
    \cup {EncAdr(op_adrp, 1, 0), EncAdr(op_adrp, 0 - 1, 0), EncAdr(op_adrp, 0, 2)}

\* instructions at word k that refer to other words of the window: forward,
\* backward and to themselves
RelocChoice(k) ==
    CASE k = 0 -> {EncB(op_b, 2), EncImm(op_bc, 3, 19, 0), EncImm(op_bc, 4, 19, 0),
                   EncAdr(op_adr, 12, 0), EncImm(W(\h58, 0), 2, 19, 1)}
      [] k = 1 -> {EncImm(op_cbz, 2, 19, 2), EncB(op_bl, 0 - 1),
                   EncImm(op_tbz, 1, 14, 4)}
      [] k = 2 -> {MOV_X1_X0, EncImm(op_bc, 0 - 2, 19, 1), EncB(op_b, 0),
                   EncAdr(op_adr, 0 - 8, 2)}
      [] k = 3 -> {SUB_SP, EncImm(op_tbnz, 0 - 3, 14, 5),
                   EncImm(W(\h58, 0), \h100, 19, 6)}
      [] OTHER -> {STP_FP_LR, EncImm(op_cbnz, 0 - 1, 19, 7), EncB(op_b, 0 - 4)}

\* the windows: one instruction of RelocFirst before plain ones, the mixes of
\* RelocChoice, and four references to the fifth word
RelocFunctionsAt(f) ==
    {Window(f, <<w, RET, MOV_X1_X0, SUB_SP, STP_FP_LR>>) : w \in RelocFirst}
    \cup {Window(f, <<EncImm(op_bc, 4, 19, 0), EncImm(op_cbz, 3, 19, 2),
                      EncImm(op_tbz, 2, 14, 4), EncAdr(op_adr, 4, 0), RET>>)}
    \cup {Window(f, <<w0, w1, w2, w3, w4>>) :
            w0 \in RelocChoice(0), w1 \in RelocChoice(1), w2 \in RelocChoice(2),
            w3 \in RelocChoice(3), w4 \in RelocChoice(4)}

InitReloc ==
    /\ \E f \in SymbolSet : mem \in RelocFunctionsAt(f)
    /\ index = 0 - 1
    /\ pc = "idle"
    /\ api = "none" /\ symbol = NULL /\ replace = NULL /\ result = NoCell
    /\ rwx_size = 0 /\ trampoline = NULL /\ original = NULL
    /\ count = 0 /\ fcount = 0 /\ inp = NULL /\ outp = NULL /\ outp_base = NULL
    /\ basep = 0 /\ endp = 0
    /\ dat_ins = ZeroDat /\ dat_fmap = EmptyFmap /\ dat_end = ZeroDat
    /\ text0 = mem
    /\ ret = Unset /\ log = <<>>
    /\ tpc = <<>> /\ ti = <<>> /\ tgot = <<>> /\ ncalls = 0

\* A64HookFunctionV(symbol, replace, rwx, rwx_size): replace within reach of B
\* (N = 1) or out of it (N = 4 or 5), the buffer near the function or far from
\* it, at every alignment, and of a pool slot's size
Call_Reloc ==
    /\ pc = "idle"
    /\ \E rep \in {FuncAddr + 64, FuncAddr + P2(26)},
          rwx \in {RwxNear + a : a \in 0..3} \cup {RwxFar + a : a \in 0..3} :
         /\ api' = "hook_v" /\ symbol' = FuncAddr /\ replace' = rep
         /\ trampoline' = rwx /\ rwx_size' = SlotWords * 4
         /\ original' = FuncAddr
    /\ pc' = "entry"
    /\ UNCHANGED <<mem, text0, result, count, relocVarsNoLogMem, outp_base, basep, endp,
                   index, ret, log, allocVars>>

\* the call up to the end of __fix_instructions
NextReloc ==
    \/ Call_Reloc
    \/ HookV_Begin
    \/ Relocate

SpecReloc == InitReloc /\ [][NextReloc]_vars

----------------------------------------------------------------------------
(* Hooking a function that is hooked already                               *)

\* A64HookFunctionV(symbol, replace1, NULL, 0): the first hook, within reach of
\* B or out of it, without a trampoline
Call_First ==
    /\ pc = "idle"
    /\ \E rep \in {FuncAddr + 64, FuncAddr + P2(26)} :
         /\ api' = "hook_v" /\ symbol' = FuncAddr /\ replace' = rep
         /\ log' = <<<<"hook", rep>>>>
    /\ trampoline' = NULL /\ rwx_size' = 0
    /\ original' = FuncAddr
    /\ pc' = "entry"
    /\ UNCHANGED <<mem, text0, result, count, relocVarsNoLogMem, outp_base, basep, endp,
                   index, ret, allocVars>>

\* A64HookFunctionV(symbol, replace2, rwx, rwx_size) after the first hook was
\* installed: replace2 within reach of B or out of it; the buffer within reach
\* of a literal load from the function, out of it but within reach of B, or
\* out of both; at every alignment
Call_Second ==
    /\ pc = "done" /\ Len(log) > 1 /\ log[1][1] = "hook"
    /\ \E k \in DOMAIN log : log[k][1] = "store"
    /\ \A k \in DOMAIN log : log[k][1] # "rehook"
    /\ \E rep \in {symbol + 128, symbol + P2(26) + 128},
          rwx \in {RwxNear + a : a \in 0..3} \cup {RwxNear + P2(20) + a : a \in 0..3}
                  \cup {RwxFar + a : a \in 0..3} :
         /\ replace' = rep /\ trampoline' = rwx
         /\ log' = Append(log, <<"rehook", rep>>)
    /\ rwx_size' = SlotWords * 4
    /\ original' = symbol
    /\ text0' = mem
    /\ ret' = Unset
    /\ pc' = "entry"
    /\ UNCHANGED <<mem, api, symbol, result, count, relocVarsNoLogMem, outp_base, basep,
                   endp, index, allocVars>>

NextChain ==
    \/ Call_First
    \/ Call_Second
    \/ HookV_Begin
    \/ Relocate
    \/ MakeRwx
    \/ Patch
    \/ FlushSymbol
    \/ HookV_Return

SpecChain == Init /\ [][NextChain]_vars

----------------------------------------------------------------------------
(* Properties                                                              *)

Last(q) == q[Len(q)]

\* the words of the hooked function that differ from what they were
Modified == {a \in DOMAIN text0 : mem[a] # text0[a]}

\* the words written outside the hooked function
WrittenOutside == DOMAIN mem \ DOMAIN text0

\* the prologue at symbol has been stored and flushed
Installed ==
    /\ pc \in {"return", "hook_return", "done"}
    /\ log # <<>> /\ Last(log)[1] = "flush" /\ Last(log)[2] = symbol

\* before log position k: every window word relocated, then the tail jump
\* written, then the trampoline range flushed, then the page made writable
TrampolineReadyBefore(k) ==
    \E t \in 1..(k - 1), f \in 1..(k - 1), p \in 1..(k - 1) :
        /\ t < f /\ f < p
        /\ log[t][1] = "tail"
        /\ \A a \in symbol..(symbol + count - 1) :
             \E r \in 1..(t - 1) : log[r][1] = "relocate" /\ log[r][2] = a
        /\ log[f][1] = "flush" /\ log[f][2] = outp_base
        /\ log[f][3] = outp - outp_base
        /\ log[p][1] = "mprotect" /\ log[p][2] = symbol /\ log[p][3]

\* C1: in a call with a trampoline buffer no word at symbol changes before all
\* N window words are relocated, the tail jump is written, the whole trampoline
\* range is flushed and the page is writable (in this order); the step that
\* changes symbol leaves the trampoline alone; the flush of the prologue comes
\* after its store.
C1_PrologueAfterTrampoline ==
    /\ [][(Modified' # Modified /\ trampoline # NULL)
            => /\ TrampolineReadyBefore(Len(log) + 1)
               /\ WrittenOutside = outp_base..(outp - 1)
               /\ TailTarget.ok /\ TailTarget.at = symbol + count
               /\ \A a \in WrittenOutside : mem'[a] = mem[a]
               /\ Last(log')[1] = "store"]_vars
    /\ [](\A k \in DOMAIN log :
            (log[k][1] = "flush" /\ log[k][2] = symbol)
                => k > 1 /\ log[k - 1][1] = "store" /\ log[k][3] >= log[k - 1][3])

C1_Witness ==
    /\ Installed /\ pc = "done" /\ api = "hook_v"
    /\ ret # NULL /\ ret = outp_base /\ count = 5
    /\ Modified # {}

\* the call has returned after its mprotect of the target failed
MprotectFailed ==
    /\ pc \in {"hook_return", "done"} /\ ret # Unset
    /\ log # <<>> /\ Last(log)[1] = "mprotect" /\ ~Last(log)[3]

\* C2 as stated: after a failed mprotect the call returns null and has written
\* no word of the trampoline buffer and no word at symbol.
C2_NothingWritten == MprotectFailed => ret = NULL /\ mem = text0

\* C2: after a failed mprotect, short or long patch, the call returns null and
\* no word at symbol is written; a trampoline buffer, when one was passed, has
\* by then been written (relocated window and tail jump) and flushed.
C2_SymbolUntouched ==
    MprotectFailed =>
        /\ ret = NULL
        /\ Modified = {}
        /\ \A k \in DOMAIN log : log[k][1] # "store"
        /\ IF outp_base = NULL THEN mem = text0
           ELSE /\ WrittenOutside = outp_base..(outp - 1)
                /\ outp > outp_base
                /\ \E f \in DOMAIN log : log[f][1] = "flush" /\ log[f][2] = outp_base

C2_Witness ==
    /\ MprotectFailed /\ api = "hook_v" /\ pc = "done"
    /\ outp_base # NULL /\ count = 1 /\ mem # text0

\* C3: a call hook_v with a buffer of fewer than N * 10 * 4 bytes returns null
\* and writes neither the buffer nor symbol.
C3_SmallBufferRejected ==
    (api = "hook_v" /\ pc \notin {"idle", "entry"}
     /\ (trampoline # NULL \/ outp_base # NULL) /\ rwx_size < count * 10 * 4)
        => pc = "done" /\ ret = NULL /\ mem = text0

\* C4: the relocator's whole output, tail jump included, is at most 10 * N words.
C4_OutputFits ==
    (pc \in {"flush_trampoline", "make_rwx"} /\ outp_base # NULL)
        => outp - outp_base <= 10 * count

\* C5: A64HookFunction with a result pointer leaves in *result the allocated
\* slot exactly when the prologue at symbol was replaced by the jump to replace,
\* and null on every failure; when the pool is exhausted symbol is untouched.
C5_ResultTellsOutcome ==
    (pc = "done" /\ api = "hook" /\ result # NoCell) =>
        /\ result # Unset
        /\ result # NULL =>
             /\ index \in 0..(A64_MAX_BACKUPS - 1) /\ result = PoolSlot(index)
             /\ Installed /\ EntryTarget.ok /\ EntryTarget.at = replace
        /\ result = NULL => ~Installed /\ Modified = {}
        /\ SlotOrNull(index) = NULL => result = NULL /\ mem = text0

C5_Witness ==
    /\ pc = "done" /\ api = "hook" /\ result = PoolSlot(0)
    /\ Installed /\ count = 4 /\ Modified # {}

\* C6: no pool slot is ever handed to two calls of FastAllocateTrampoline (so
\* at most A64_MAX_BACKUPS calls receive one and all later calls receive null).
C6_SlotsNeverReused == \A i \in DOMAIN tgot : tgot[i] <= 1

\* what a short patch leaves: one displaced instruction, the first word of
\* symbol alone changed, to 0x14000000 | (disp & 0x03ffffff), a B to replace
ShortPatchDone ==
    /\ count = 1
    /\ Modified = {symbol}
    /\ mem[symbol] = Or32(W(\h14, 0), And32(ToWord(replace - symbol), W(\h03, \hffffff)))
    /\ mem[symbol][1] \div 4 = 5
    /\ symbol + Imm26(mem[symbol]) = replace

C8_LongPatchLayout ==
    /\ (Installed /\ Abs(replace - symbol) >= P2(25)) => count # 1
    /\ (Installed /\ count # 1) =>
         LET ldr == symbol + count - 4
         IN /\ count = IF (symbol + 2) % 2 = 0 THEN 4 ELSE 5
            /\ count = 5 => mem[symbol] = W(\hd5, \h03201f)
            /\ mem[ldr] = W(\h58, \h000051)
            /\ mem[ldr + 1] = W(\hd6, \h1f0220)
            /\ <<mem[ldr + 2], mem[ldr + 3]>> = Lit64(replace, 0)
            /\ (ldr + 2) % 2 = 0
            /\ ldr + Imm19(mem[ldr]) = ldr + 2
            /\ Modified \subseteq symbol..(symbol + count - 1)
            /\ EntryTarget.ok /\ EntryTarget.at = replace

C8_Witness ==
    /\ Installed /\ pc = "done" /\ count = 5 /\ replace = symbol + P2(26)
    /\ mem[symbol] = A64_NOP /\ mem[symbol + 3] = W(\h20, 4)

\* C9: after a successful install with a trampoline the tail jump, in its B
\* form or its LDR X17 / BR X17 form, goes to symbol + N words, where N is the
\* number of words stored at symbol: no word from symbol + N on is changed and
\* each of the N words was relocated into the trampoline.
C9_TailReturnsAfterWindow ==
    (Installed /\ ret # NULL /\ ret # Unset) =>
        LET tail == dat_end[count - 1]
        IN /\ TailTarget.ok /\ TailTarget.at = symbol + count
           /\ \/ outp = tail + 1 /\ Read(mem, tail)[1] \div 4 = 5
              \/ /\ outp - tail \in {4, 5}
                 /\ Read(mem, outp - 4) = W(\h58, \h000051)
                 /\ Read(mem, outp - 3) = W(\hd6, \h1f0220)
           /\ Modified \subseteq symbol..(symbol + count - 1)
           /\ \E k \in DOMAIN log : log[k][1] = "store" /\ log[k][3] = count
           /\ \A a \in symbol..(symbol + count - 1) :
                /\ \E r \in DOMAIN log : log[r][1] = "relocate" /\ log[r][2] = a
                /\ dat_ins[a - symbol] \in ret..tail

C9_Witness ==
    /\ Installed /\ pc = "done" /\ ret # NULL /\ ret # Unset
    /\ count = 4 /\ outp - dat_end[count - 1] = 5

\* C10: when relocation is finished, each displaced instruction and its copy in
\* the trampoline write the same registers with the same values and continue
\* at corresponding addresses, whether a condition holds or not (X17 and the
\* link register of an expanded BL aside), and the tail jump goes to the first
\* word after the window.
C10_TrampolineEquivalent ==
    (pc = "make_rwx" /\ outp_base # NULL /\ trampoline # NULL) =>
        /\ \A i \in 0..(count - 1), taken \in BOOLEAN : Equivalent(i, taken)
        /\ TailTarget.ok /\ TailTarget.at = basep + count

\* relocation into a buffer is finished
Relocated == pc \in {"flush_trampoline", "make_rwx"} /\ outp_base # NULL

\* C11: a one-word window whose instruction is not B, BL, B.cond, CBZ/CBNZ,
\* TBZ/TBNZ, a literal load, PRFM, ADR or ADRP is relocated to exactly one word,
\* equal to the instruction, at the start of the output; after it comes only
\* the tail jump (one B, or [NOP] LDR X17 / BR X17 / address), which returns to
\* the word after the window; the function itself is not written.
C11_OtherWordsCopied ==
    (Relocated /\ count = 1 /\ ~IsPcRelative(text0[basep])) =>
        /\ Read(mem, outp_base) = text0[basep]
        /\ dat_ins[0] = outp_base /\ dat_end[0] = outp_base + 1
        /\ WrittenOutside = outp_base..(outp - 1)
        /\ outp - dat_end[0] \in {1, 4, 5}
        /\ TailTarget.ok /\ TailTarget.at = basep + 1
        /\ Modified = {}

C11_Witness ==
    /\ Relocated /\ count = 1 /\ text0[basep] = W(\hf9, \h400020)
    /\ outp_base = RwxFar + 1 /\ outp = outp_base + 5
    /\ Read(mem, outp_base) = W(\hf9, \h400020)

\* the output cursor when window instruction i was reached
OutBefore(i) == IF i = 0 THEN outp_base ELSE dat_end[i - 1]

\* window instruction i is a B or BL to a target outside the window
BranchOut(i) ==
    /\ text0[basep + i][1] \div 4 \in {\h05, \h25}
    /\ ~is_in_fixing_range(basep + i + Imm26(text0[basep + i]))

\* B / BL i was rewritten to one word: same top six bits, imm26 = out_off
BranchOneWord(i) ==
    LET ins == text0[basep + i]
        out == OutBefore(i)
        out_off == basep + i + Imm26(ins) - out
    IN /\ dat_end[i] = out + 1 /\ dat_ins[i] = out
       /\ Read(mem, out)[1] \div 4 = ins[1] \div 4
       /\ LowBits(Read(mem, out), 26) = out_off % P2(26)
       /\ out + Imm26(Read(mem, out)) = basep + i + Imm26(ins)

\* B / BL i was rewritten to the literal form, which goes to the target (BL
\* with the word after the sequence as its return address)
BranchLiteralForm(i) ==
    LET ins == text0[basep + i]
        t == Run(mem, Start(OutBefore(i)), OutBefore(i), dat_end[i], NoCond, ExecFuel)
    IN /\ dat_end[i] - OutBefore(i) \in 4..6
       /\ t.ok /\ t.at = basep + i + Imm26(ins)
       /\ t.link = IF ins[1] \div 4 = \h25 THEN dat_end[i] ELSE NoLink

EmbeddedLiteral(lo, hi, c) ==
    LET w == Read(mem, c)
    IN IF c < hi /\ w[1] % 64 \in {\h18, \h1c} /\ w[1] # \hd8
          /\ c + Imm19(w) \in lo..(hi - 1)
       THEN {<<c + Imm19(w), LitWords(w)>>}
       ELSE {}

\* the literals in the translation of window instruction i: its load is the
\* first word, or the third when a conditional branch was expanded
LiteralsOf(i) ==
    LET ins == text0[basep + i]
        cond == \/ ins[1] = \h54
                \/ ins[1] % 128 \in {\h34, \h35, \h36, \h37}
    IN EmbeddedLiteral(dat_ins[i], dat_end[i],
                       IF cond THEN dat_ins[i] + 2 ELSE dat_ins[i])

\* the literal of the tail jump
TailLiterals ==
    LET lo == dat_end[count - 1]
    IN EmbeddedLiteral(lo, outp, IF Read(mem, lo) = A64_NOP THEN lo + 1 ELSE lo)

\* C13: every literal embedded in the output (by the long form of B / BL, the
\* long form of a conditional branch, an inlined literal load, the literal
\* form of ADR / ADRP, the tail jump) starts at an address aligned to its size:
\* 8 bytes to 8, 16 bytes to 16, 4 bytes to 4; every translation longer than
\* two words, and every tail jump longer than one, has such a literal.
C13_LiteralsAligned ==
    Relocated =>
        /\ \A i \in 0..(count - 1) :
             /\ \A l \in LiteralsOf(i) : l[1] % l[2] = 0
             /\ dat_end[i] - dat_ins[i] > 2 => LiteralsOf(i) # {}
        /\ \A l \in TailLiterals : l[1] % l[2] = 0
        /\ outp - dat_end[count - 1] > 1 => TailLiterals # {}

C13_Witness ==
    /\ Relocated /\ count = 1 /\ outp_base = RwxFar + 1
    /\ text0[basep][1] = \h9c
    /\ LiteralsOf(0) = {<<RwxFar + 4, 4>>}
    /\ TailLiterals = {<<RwxFar + 10, 2>>}

\* the window instructions before word k that refer to window word j
RefsTo(j, k) ==
    {i \in 0..(k - 1) : RefTarget(text0[basep + i], basep + i) = basep + j}

\* C14: while the window is relocated, pending[j] holds one fix-up for each
\* instruction already processed that refers to the later instruction j, each
\* for a word already emitted; it never reaches its capacity, so no fix-up is
\* dropped; it is empty once j has been processed, and all lists are empty when
\* the relocator returns.
C14_PendingEmptied ==
    /\ \A j \in DOMAIN dat_fmap : Len(dat_fmap[j]) < A64_MAX_REFERENCES
    /\ pc = "fix" =>
         \A j \in 0..(count - 1) :
            IF j < inp - basep THEN dat_fmap[j] = <<>>
            ELSE /\ Len(dat_fmap[j]) = Cardinality(RefsTo(j, inp - basep))
                 /\ \A n \in DOMAIN dat_fmap[j] :
                      dat_fmap[j][n].bp \in outp_base..(outp - 1)
    /\ Relocated => \A j \in DOMAIN dat_fmap : dat_fmap[j] = <<>>

C14_Witness ==
    /\ pc = "fix" /\ count = 5 /\ inp - basep = 5
    /\ RefsTo(4, 4) = {0, 1, 2, 3}
    /\ dat_fmap[4] = <<>>
    /\ Imm19(Read(mem, dat_ins[0])) = dat_ins[4] - dat_ins[0]
    /\ Imm14(Read(mem, dat_ins[2])) = dat_ins[4] - dat_ins[2]
    /\ Imm21(Read(mem, dat_ins[3])) = 4 * (dat_ins[4] - dat_ins[3])

\* window instruction i is a B, BL, B.cond, CBZ/CBNZ, TBZ/TBNZ or ADR whose
\* target is the window instruction j
RefersTo(i, j) ==
    LET ins == text0[basep + i]
    IN /\ RefTarget(ins, basep + i) = basep + j
       /\ (ins[1] % 32 = \h10) => Imm21(ins) % 4 = 0

\* C15: when relocation is finished, every B, BL, B.cond, CBZ/CBNZ, TBZ/TBNZ and
\* ADR whose target is the window instruction j is one word of the same kind
\* whose displacement, decoded at its own output address, gives out_addr[j],
\* for j before, at and after the instruction; and while the window is
\* relocated a deferred fix-up exists only for a word emitted for an earlier
\* instruction than its target.
C15_WindowReferencesResolved ==
    /\ Relocated =>
         \A i \in 0..(count - 1), j \in 0..(count - 1) :
            RefersTo(i, j) =>
                LET w == Read(mem, dat_ins[i])
                IN /\ dat_end[i] = dat_ins[i] + 1
                   /\ w[1] % 32 = text0[basep + i][1] % 32
                   /\ RefTarget(w, dat_ins[i]) = dat_ins[j]
                   /\ (w[1] % 32 = \h10) => Imm21(w) % 4 = 0
    /\ pc = "fix" =>
         \A j \in 0..(count - 1) : \A n \in DOMAIN dat_fmap[j] :
            \E i \in 0..(j - 1) :
                /\ i < inp - basep /\ dat_fmap[j][n].bp = dat_ins[i]
                /\ RefTarget(text0[basep + i], basep + i) = basep + j

\* window instruction i is a literal load (LDR Wt/Xt, LDR St/Dt/Qt, LDRSW)
IsLiteralLoad(i) ==
    text0[basep + i][1] \in {\h18, \h58, \h98, \h1c, \h5c, \h9c}

\* the address the relocated literal load i takes its literal from: the
\* address its displacement decodes to, or, when the literal was copied into
\* the output, an address whose words are the copied ones
LoadsFrom(i, tgt) ==
    LET w == Read(mem, dat_ins[i])
    IN IF dat_end[i] = dat_ins[i] + 1
       THEN dat_ins[i] + Imm19(w) = tgt
       ELSE \A k \in 0..(LitWords(w) - 1) :
                Read(mem, dat_ins[i] + Imm19(w) + k) = Read(text0, tgt + k)

\* C16: the target the relocator computes for a literal load at PC is
\* PC + sext(imm19) * 4, for positive and negative imm19: the relocated load
\* reads the literal of that address.
C16_LoadTargetSigned ==
    Relocated =>
        \A i \in 0..(count - 1) :
            IsLiteralLoad(i) =>
                LoadsFrom(i, basep + i + Imm19(text0[basep + i]))

\* the 64-bit value an ADR or ADRP at word a forms, as the two words of Lit64
PcrelValue(ins, a) ==
    IF ins[1] < 128
    THEN Lit64(a + (Imm21(ins) \div 4), Imm21(ins) % 4)
    ELSE Lit64((a \div 1024) * 1024 + Imm21(ins) * 1024, 0)

\* the word the value of an ADR or ADRP at word a lies in
PcrelWord(ins, a) ==
    IF ins[1] < 128 THEN a + (Imm21(ins) \div 4)
    ELSE (a \div 1024) * 1024 + Imm21(ins) * 1024

\* window instruction i is an ADR or ADRP whose target is outside the window
PcrelOut(i) ==
    /\ text0[basep + i][1] % 32 = \h10
    /\ ~is_in_fixing_range(PcrelWord(text0[basep + i], basep + i))

\* the values the translation of window instruction i leaves in X registers
ValuesFormed(i) ==
    LET t == Run(mem, Start(dat_ins[i]), dat_ins[i], dat_end[i], NoCond, ExecFuel)
    IN IF t.ok THEN {wr[3] : wr \in {x \in t.writes : x[1] = "x"}} ELSE {}

\* C17: the target the relocator computes for an ADR at PC is PC + sext(imm21)
\* and for an ADRP (PC & ~0xfff) + (sext(imm21) << 12), for positive and
\* negative imm21, as 64-bit values; with the target outside the window the
\* relocated code forms exactly this value, and for ADRP it is the literal of
\* LDR Xd, #8 ; B #12 ; <literal>.
C17_PcrelTargetSigned ==
    Relocated =>
        \A i \in 0..(count - 1) :
            PcrelOut(i) =>
                LET ins == text0[basep + i]
                    a == dat_ins[i]
                IN /\ ValuesFormed(i) = {PcrelValue(ins, basep + i)}
                   /\ ins[1] >= 128 =>
                        /\ dat_end[i] = a + 4
                        /\ Read(mem, a) = W(\h58, \h000040 + Rt(ins))
                        /\ Read(mem, a + 1) = W(\h14, \h000003)
                        /\ <<Read(mem, a + 2), Read(mem, a + 3)>>
                             = PcrelValue(ins, basep + i)

\* the byte offset of the target of ADR i from the output cursor at which the
\* instruction is rewritten
AdrNewOffset(i) ==
    4 * (PcrelWord(text0[basep + i], basep + i) - OutBefore(i))
        + (Imm21(text0[basep + i]) % 4)

\* C18: an ADR whose target is outside the window and whose new byte offset
\* fits the signed 21-bit field, a multiple of 4 or not, becomes one ADR with
\* the same Rd whose immhi:immlo is the new offset, so that it forms the
\* original target.
C18_AdrReencoded ==
    Relocated =>
        \A i \in 0..(count - 1) :
            (PcrelOut(i) /\ text0[basep + i][1] < 128
             /\ AdrNewOffset(i) \in (0 - P2(20))..(P2(20) - 1)) =>
                LET ins == text0[basep + i]
                    w == Read(mem, OutBefore(i))
                IN /\ dat_end[i] = OutBefore(i) + 1
                   /\ w[1] % 32 = \h10 /\ w[1] < 128
                   /\ Rt(w) = Rt(ins)
                   /\ Imm21(w) = AdrNewOffset(i)
                   /\ ValuesFormed(i) = {PcrelValue(ins, basep + i)}

\* literal load i was re-immediated in place: one word after its NOPs
ReimmediatedInPlace(i) == IsLiteralLoad(i) /\ dat_end[i] = dat_ins[i] + 1

\* C19: a literal load that is re-immediated in place has its target outside
\* the window; the emitted word has the opcode bits 24-31 and the Rt of the
\* original, and its imm19 decodes to the original target, for positive and
\* negative new displacements; at most 3 NOPs, and nothing else, precede it.
C19_LoadReimmediated ==
    Relocated =>
        \A i \in 0..(count - 1) :
            ReimmediatedInPlace(i) =>
                LET ins == text0[basep + i]
                    w == Read(mem, dat_ins[i])
                IN /\ ~is_in_fixing_range(basep + i + Imm19(ins))
                   /\ w[1] = ins[1]
                   /\ Rt(w) = Rt(ins)
                   /\ dat_ins[i] + Imm19(w) = basep + i + Imm19(ins)
                   /\ NopsLead(mem, OutBefore(i), dat_ins[i])

\* the words of the literal of a literal load, by its natural alignment: 4
\* bytes for LDR Wt and LDR St, 8 for LDR Xt, LDR Dt and LDRSW, 16 for LDR Qt
AlignWords(ins) ==
    CASE ins[1] \in {\h18, \h1c} -> 1
      [] ins[1] \in {\h58, \h5c, \h98} -> 2
      [] OTHER -> 4

\* literal load i has its target inside the window, or too far from the
\* output cursor for a signed 19-bit displacement
MustInline(i) ==
    LET tgt == basep + i + Imm19(text0[basep + i])
    IN /\ IsLiteralLoad(i)
       /\ is_in_fixing_range(tgt) \/ Abs(tgt - OutBefore(i)) >= P2(18)

\* C20: a literal load whose target is inside the window or out of reach is
\* emitted as NOPs, a load of the same kind and Rt with displacement +8, a B
\* to the first word after the data, and K = alignment / 4 data words equal to
\* the words at the original target; out_addr[i] is the load, the data is
\* aligned, and the output cursor ends 2 + K words after the load.
C20_LiteralInlined ==
    Relocated =>
        \A i \in 0..(count - 1) :
            MustInline(i) =>
                LET ins == text0[basep + i]
                    a == dat_ins[i]
                    K == AlignWords(ins)
                IN /\ NopsLead(mem, OutBefore(i), a)
                   /\ Read(mem, a)[1] = ins[1] /\ Rt(Read(mem, a)) = Rt(ins)
                   /\ Imm19(Read(mem, a)) = 2
                   /\ Read(mem, a + 1)[1] = \h14
                   /\ a + 1 + Imm26(Read(mem, a + 1)) = a + 2 + K
                   /\ \A k \in 0..(K - 1) :
                        Read(mem, a + 2 + k)
                            = Read(text0, basep + i + Imm19(ins) + k)
                   /\ (a + 2) % K = 0
                   /\ dat_end[i] = a + 2 + K

\* window instruction i is a B or BL to a target outside the window whose new
\* displacement does not fit the signed 26-bit field
LongBranch(i) ==
    /\ BranchOut(i)
    /\ basep + i + Imm26(text0[basep + i]) - OutBefore(i)
           \notin (0 - P2(25))..(P2(25) - 1)

\* C21: a B or BL to a target outside the window whose displacement overflows
\* is emitted as LDR X17,#8; BR X17; target (B) or LDR X17,#12; ADR X30,#16;
\* BR X17; target (BL), after one NOP exactly when the literal would otherwise
\* not be 8-byte aligned; running it arrives at the target, and for BL the
\* link register holds the address of the word after the literal.
C21_LongBranchLayout ==
    Relocated =>
        \A i \in 0..(count - 1) :
            LongBranch(i) =>
                LET ins == text0[basep + i]
                    o == OutBefore(i)
                    a == dat_ins[i]
                    bl == ins[1] \div 4 = \h25
                    n == IF bl THEN 3 ELSE 2
                    t == Run(mem, Start(o), o, dat_end[i], NoCond, ExecFuel)
                IN /\ a - o \in {0, 1}
                   /\ a - o = 1 <=> (o + n) % 2 # 0
                   /\ a - o = 1 => Read(mem, o) = W(\hd5, \h03201f)
                   /\ (a + n) % 2 = 0
                   /\ [k \in 1..n |-> Read(mem, a + k - 1)]
                        = IF bl
                          THEN <<W(\h58, \h000071), W(\h10, \h00009e), W(\hd6, \h1f0220)>>
                          ELSE <<W(\h58, \h000051), W(\hd6, \h1f0220)>>
                   /\ Val64(Read(mem, a + n), Read(mem, a + n + 1))
                        = <<basep + i + Imm26(ins), 0>>
                   /\ dat_end[i] = a + n + 2
                   /\ t.ok /\ t.at = basep + i + Imm26(ins)
                   /\ t.link = IF bl THEN a + n + 2 ELSE NoLink

C21_Witness ==
    /\ Relocated /\ count = 1 /\ LongBranch(0)
    /\ text0[basep][1] \div 4 = \h25
    /\ outp_base = RwxFar /\ dat_ins[0] = RwxFar + 1 /\ dat_end[0] = RwxFar + 6
    /\ Read(mem, RwxFar) = A64_NOP /\ Read(mem, RwxFar + 2) = W(\h10, \h00009e)

\* window instruction i is a B.cond, CBZ / CBNZ or TBZ / TBNZ to a target
\* outside the window
CondOut(i) ==
    LET ins == text0[basep + i]
    IN /\ \/ ins[1] = \h54 /\ (ins[2] \div 16) % 2 = 0
          \/ ins[1] % 128 \in {\h34, \h35, \h36, \h37}
       /\ ~is_in_fixing_range(RefTarget(ins, basep + i))

\* the width of the displacement field, and the bits outside it
CondWidth(ins) == IF ins[1] % 128 \in {\h36, \h37} THEN 14 ELSE 19
CondKept(ins) == <<ins[1], ins[2] \div P2(5 + CondWidth(ins)), ins[2] % 32>>

\* conditional branch i became one word with the same bits outside the field,
\* which decodes to the target
CondOneWord(i) ==
    LET ins == text0[basep + i]
        o == OutBefore(i)
        w == Read(mem, o)
    IN /\ dat_ins[i] = o /\ dat_end[i] = o + 1
       /\ CondKept(w) = CondKept(ins)
       /\ RefTarget(w, o) = RefTarget(ins, basep + i)

\* conditional branch i became the six-word form: the first word keeps the
\* bits outside the field; control goes to the target exactly when the
\* condition holds and to the word after the literal otherwise
CondSixWords(i) ==
    LET ins == text0[basep + i]
        o == OutBefore(i)
        a == dat_ins[i]
        c(b) == [id |-> CondId(ins), taken |-> b]
        yes == Run(mem, Start(o), o, dat_end[i], c(TRUE), ExecFuel)
        no == Run(mem, Start(o), o, dat_end[i], c(FALSE), ExecFuel)
    IN /\ a - o \in {0, 1}
       /\ a - o = 1 <=> (o + 4) % 2 # 0
       /\ a - o = 1 => Read(mem, o) = W(\hd5, \h03201f)
       /\ (a + 4) % 2 = 0
       /\ dat_end[i] = a + 6
       /\ CondKept(Read(mem, a)) = CondKept(ins)
       /\ yes.ok /\ yes.at = RefTarget(ins, basep + i)
       /\ no.ok /\ no.at = a + 6
       /\ yes.writes = {} /\ no.writes = {}
       /\ yes.link = NoLink /\ no.link = NoLink

Advance(i) == dat_end[i] - OutBefore(i)
Padding(i) == dat_ins[i] - OutBefore(i)

\* C23 as stated: every instruction a rewriter recognises advances the output
\* cursor by at least 1 and at most 6 words.
C23_OneToSixWords ==
    Relocated =>
        \A i \in 0..(count - 1) :
            IsPcRelative(text0[basep + i]) => Advance(i) \in 1..6

\* C23: every instruction a rewriter recognises advances the output cursor by
\* 0 to 9 words: PRFM by none; B by 1 or 4 and BL by 1 or 5, conditional
\* branches by 1 or 6, ADR / ADRP by 1 or 4, each after at most one NOP; a
\* literal load by 1 or by 2 + K (K = alignment / 4) after at most 3 NOPs.
C23_ZeroToNineWords ==
    Relocated =>
        \A i \in 0..(count - 1) :
            LET ins == text0[basep + i]
                body == Advance(i) - Padding(i)
            IN IsPcRelative(ins) =>
                /\ Advance(i) \in 0..9
                /\ CASE ins[1] = \hd8 -> Advance(i) = 0
                     [] ins[1] \div 4 = \h05 -> Padding(i) \in 0..1 /\ body \in {1, 4}
                     [] ins[1] \div 4 = \h25 -> Padding(i) \in 0..1 /\ body \in {1, 5}
                     [] ins[1] % 32 = \h10 -> Padding(i) \in 0..1 /\ body \in {1, 4}
                     [] ins[1] % 64 \in {\h18, \h1c} ->
                          Padding(i) \in 0..3 /\ body \in {1, 2 + AlignWords(ins)}
                     [] OTHER -> Padding(i) \in 0..1 /\ body \in {1, 6}

C23_Witness ==
    /\ Relocated /\ count = 1 /\ text0[basep][1] = \h9c
    /\ Padding(0) = 3 /\ Advance(0) = 9
    /\ Read(mem, outp_base + 2) = A64_NOP /\ Read(mem, outp_base + 3)[1] = \h9c

\* the displacement field of a branch or ADR word: imm26, imm14, or the bits
\* 23..5 of imm19 and immhi
DispField(w) ==
    IF w[1] \div 4 \in {\h05, \h25} THEN W(\h03, \hffffff)
    ELSE IF w[1] % 128 \in {\h36, \h37} THEN W(0, \h07ffe0)
    ELSE W(0, \hffffe0)

\* the step changes the output word a by a deferred fix-up only: a is recorded
\* as pending on the instruction being relocated, its displacement field was
\* zero, and no bit outside the field changes
FixedUp(a) ==
    LET old == Read(mem, a)
        new == Read(mem', a)
        pending == dat_fmap[inp - basep]
    IN /\ \E k \in 1..Len(pending) : pending[k].bp = a
       /\ And32(old, DispField(old)) = W(0, 0)
       /\ And32(new, Not32(DispField(old))) = old
       /\ new = Or32(old, new)

\* C24: in every step of the relocation loop the input cursor moves on by one
\* word, from the first window word to the last in order, and stays at the
\* end of the window when the tail jump is written; the output cursor never
\* decreases; and a word below the output cursor changes only by a deferred
\* fix-up, which ORs bits into a displacement field that was emitted as zero
\* and changes no bit outside it.
C24_CursorsAdvance ==
    [][pc = "fix" =>
        /\ outp' >= outp
        /\ IF pc' = "fix"
           THEN /\ inp = basep + (count - fcount) /\ inp < endp
                /\ inp' = inp + 1
                /\ log' = Append(log, <<"relocate", inp>>)
           ELSE inp = endp /\ inp' = inp /\ fcount = 0
        /\ \A a \in DOMAIN mem' :
             (a < outp /\ Read(mem', a) # Read(mem, a)) =>
                 a >= outp_base /\ FixedUp(a)]_vars

C24_Witness ==
    /\ pc = "fix" /\ count = 5 /\ inp = endp
    /\ text0[basep] = EncImm(op_bc, 4, 19, 0)
    /\ text0[basep + 3] = EncAdr(op_adr, 4, 0)
    /\ Read(mem, dat_ins[0]) = EncImm(op_bc, dat_ins[4] - dat_ins[0], 19, 0)
    /\ Read(mem, dat_ins[3]) = EncAdr(op_adr, 4 * (dat_ins[4] - dat_ins[3]), 0)
    /\ dat_ins[4] > dat_ins[3] /\ dat_ins[3] > dat_ins[0]

\* the second hook has returned its trampoline
Rehooked ==
    /\ pc = "done" /\ ret # NULL /\ ret # Unset
    /\ \E k \in DOMAIN log : log[k][1] = "rehook"

\* running the second trampoline, and the function's words it returns into
ThroughTrampoline ==
    Run(mem, Run(mem, Start(ret), ret, outp, NoCond, ExecFuel),
        symbol, symbol + FuncWords, NoCond, ExecFuel)

\* C25: when a function hooked to replace1 is hooked again with a trampoline,
\* running the second trampoline arrives at replace1, with no register but
\* X17 written on the way.
C25_ChainReachesFirst ==
    Rehooked =>
        /\ ThroughTrampoline.ok
        /\ ThroughTrampoline.at = log[1][2]
        /\ ThroughTrampoline.writes = {} /\ ThroughTrampoline.link = NoLink

====
